---- MODULE Spec2Model ----
(***************************************************************************)
(* A model of noisemaker/effects.py: the image-tensor operators convolve,  *)
(* normalize, resample, crease, displace and wavelet.                      *)
(*                                                                         *)
(* An image tensor is a record                                             *)
(*   [height, width, channels, dtype, data, den, kpow]                     *)
(* whose sample at <<y, x, c>> has the value                               *)
(*   data[<<y, x, c>>] / den * (1 / dtype.max) ^ kpow.                     *)
(* den = 0 together with a numerator 0 is the IEEE quotient 0/0, a NaN.    *)
(* kpow counts the factors 1/dtype.max that tf.image.convert_image_dtype   *)
(* multiplies into an integer tensor it converts to floating point         *)
(* (2^63-1 for the int64 kernel does not fit TLC's integers, so            *)
(* the factor is kept symbolically).  Arithmetic on samples is exact:      *)
(* float32 rounding is not modelled.                                       *)
(***************************************************************************)
EXTENDS Integers, Sequences, FiniteSets, TLC

VARIABLES pc, kernel, displacement, tensor, work, result, loc

vars == <<pc, kernel, displacement, tensor, work, result, loc>>

(***************************************************************************)
(* Bounds of the model.                                                    *)
(***************************************************************************)
\* input samples are n / (2 * HalfSteps), n in 0 .. 2 * HalfSteps
HalfSteps == 2
\* largest height and width of a tensor given to convolve
MaxConvDim == 12
\* largest difference between the height and the width given to convolve
MaxConvSkew == 1
\* largest height and width of a tensor given to crease, displace, wavelet
MaxDim == 3
\* largest channel count
MaxChannels == 4
\* largest |displacement| given to displace, in units of 1 / DispDen
MaxDisplacement == 3

VDen == 2 * HalfSteps

\* the displacement given to displace is displacement / DispDen
DispDen == 2

(***************************************************************************)
(* Python and numpy arithmetic.                                            *)
(***************************************************************************)
\* a mutant of Trunc: rounding toward negative infinity (math.floor)
TruncAsFloor(num, d) == num \div d

\* int(num / d) for d > 0: Python's int() truncates toward zero
Trunc(num, d) == IF num >= 0 THEN num \div d ELSE -((-num) \div d)

Abs(n) == IF n >= 0 THEN n ELSE -n

Max2(a, b) == IF a >= b THEN a ELSE b

\* the index set of an array of shape (h, w, c)
Idx(h, w, c) == (0 .. h - 1) \X (0 .. w - 1) \X (0 .. c - 1)

SetMax(S) == CHOOSE m \in S : \A n \in S : n <= m

SetMin(S) == CHOOSE m \in S : \A n \in S : m <= n

Shape(t) == <<t.height, t.width, t.channels>>

Tensor(h, w, c, dtype, data, den, kpow) ==
    [height |-> h, width |-> w, channels |-> c, dtype |-> dtype,
     data |-> data, den |-> den, kpow |-> kpow]

\* a sample that is the quotient 0/0
IsNaN(t, i) == t.den = 0 /\ t.data[i] = 0

NoTensor == Tensor(0, 0, 0, "none", <<>>, 1, 0)

NoLoc == [x |-> 0]

(***************************************************************************)
(* The input tensors: float32 samples in [0, 1].                           *)
(***************************************************************************)
ConstTensor(h, w, c, v) ==
    Tensor(h, w, c, "float32", [i \in Idx(h, w, c) |-> v], VDen, 0)

\* 1.0 at (0, 0) of channel ic, 0.0 elsewhere
ImpulseTensor(h, w, c, ic) ==
    Tensor(h, w, c, "float32",
           [i \in Idx(h, w, c) |-> IF i = <<0, 0, ic>> THEN VDen ELSE 0],
           VDen, 0)

\* samples that differ from pixel to pixel and from channel to channel
RampTensor(h, w, c, s) ==
    Tensor(h, w, c, "float32",
           [i \in Idx(h, w, c) |-> (s * i[1] + 2 * i[2] + 3 * i[3] + s) % (VDen + 1)],
           VDen, 0)

Tensors(h, w, c) ==
    {ConstTensor(h, w, c, v) : v \in 0 .. VDen}
      \cup {ImpulseTensor(h, w, c, ic) : ic \in 0 .. c - 1}
      \cup {RampTensor(h, w, c, s) : s \in 1 .. 2}

(***************************************************************************)
(* tf.image.convert_image_dtype(t, tf.float32, saturate=True): a floating  *)
(* tensor is cast, an integer tensor is cast and multiplied by             *)
(* 1 / dtype.max.  The samples of the model are exactly representable in   *)
(* float32, so the cast keeps them.                                        *)
(***************************************************************************)
ConvertImageDtype(t) ==
    IF t.dtype \in {"float32", "float64"}
    THEN [t EXCEPT !.dtype = "float32"]
    ELSE [t EXCEPT !.dtype = "float32", !.kpow = t.kpow + 1]

(***************************************************************************)
(* crease                                                                  *)
(***************************************************************************)
\* a mutant of CreaseSample: the ridge upside down, unsigned((n - .5) * 2)
CreaseSampleInverted(n, den) == Abs(2 * n - den)

\* 1 - max(t, -t) for t = (n/den - .5) * 2, as a numerator over den
CreaseSample(n, den) == den - Max2(2 * n - den, -(2 * n - den))

crease(t) ==
    Tensor(t.height, t.width, t.channels, "float32",
           [i \in Idx(t.height, t.width, t.channels) |-> CreaseSample(t.data[i], t.den)],
           t.den, t.kpow)

InitCrease ==
    /\ pc = "crease"
    /\ kernel = "none"
    /\ displacement = 0
    /\ \E h \in 1 .. MaxDim, w \in 1 .. MaxDim, c \in 1 .. MaxChannels :
         tensor \in Tensors(h, w, c)
    /\ work = NoTensor
    /\ result = NoTensor
    /\ loc = NoLoc

Crease ==
    /\ pc = "crease"
    /\ result' = crease(tensor)
    /\ pc' = "done"
    /\ UNCHANGED <<kernel, displacement, tensor, work, loc>>

NextCrease == Crease

SpecCrease == InitCrease /\ [][NextCrease]_vars

AllSamples(t, n) == \A i \in DOMAIN t.data : t.data[i] = n

\* C3 (as claimed): crease maps an all-0.5 tensor to all 0, and all-0 and
\* all-1 tensors to all 1.
C3_AsClaimed ==
    pc = "done" =>
      /\ (AllSamples(tensor, HalfSteps) => AllSamples(result, 0))
      /\ (AllSamples(tensor, 0) \/ AllSamples(tensor, VDen)
            => AllSamples(result, result.den))

\* C3 (amended): crease maps an all-0.5 tensor to all 1, and all-0 and
\* all-1 tensors to all 0; the shape is the input's.
C3_CreaseRidge ==
    pc = "done" =>
      /\ Shape(result) = Shape(tensor)
      /\ result.den = VDen /\ result.kpow = 0
      /\ (AllSamples(tensor, HalfSteps) => AllSamples(result, result.den))
      /\ (AllSamples(tensor, 0) \/ AllSamples(tensor, VDen)
            => AllSamples(result, 0))

C3_Witness ==
    /\ pc = "done"
    /\ tensor.height = 2 /\ tensor.width = 2
    /\ AllSamples(tensor, HalfSteps)
    /\ AllSamples(result, VDen)

(***************************************************************************)
(* ConvKernel                                                              *)
(***************************************************************************)
ConvKernel ==
    [emboss |-> << << 0,  2,  4>>,
                   <<-2,  1,  2>>,
                   <<-4, -2,  0>> >>,
     shadow |-> << << 0,  1,  1,  1,  1,  1,  1>>,
                   <<-1,  0,  2,  2,  1,  1,  1>>,
                   <<-1, -2,  0,  4,  2,  1,  1>>,
                   <<-1, -2, -4,  8,  4,  2,  1>>,
                   <<-1, -1, -2, -4,  0,  2,  1>>,
                   <<-1, -1, -1, -2, -2,  0,  1>>,
                   <<-1, -1, -1, -1, -1, -1,  0>> >>,
     edges |-> << << 1,   2,  1>>,
                  << 2, -12,  2>>,
                  << 1,   2,  1>> >>,
     sharpen |-> << << 0, -1,  0>>,
                    <<-1,  5, -1>>,
                    << 0, -1,  0>> >>,
     unsharp_mask |-> << <<1,  4,    6,  4, 1>>,
                         <<4, 16,   24, 16, 4>>,
                         <<6, 24, -476, 24, 6>>,
                         <<4, 16,   24, 16, 4>>,
                         <<1,  4,    6,  4, 1>> >>]

KernelNames == DOMAIN ConvKernel

RECURSIVE SumTo(_, _)
\* f[0] + ... + f[n - 1]
SumTo(f, n) == IF n = 0 THEN 0 ELSE f[n - 1] + SumTo(f, n - 1)

(***************************************************************************)
(* _conform_kernel_to_tensor                                               *)
(***************************************************************************)
\* the kernel read in row-major order, as np.repeat flattens it
Flatten(k) == [f \in 0 .. Len(k) * Len(k) - 1 |-> k[(f \div Len(k)) + 1][(f % Len(k)) + 1]]

\* a mutant of NpRepeat: np.tile, the whole kernel repeated channels times
NpRepeatAsTile(k, channels) ==
    [f \in 0 .. Len(k) * Len(k) * channels - 1 |-> Flatten(k)[f % (Len(k) * Len(k))]]

\* np.repeat(kernel, channels): each element repeated channels times
NpRepeat(k, channels) ==
    [f \in 0 .. Len(k) * Len(k) * channels - 1 |-> Flatten(k)[f \div channels]]

\* tf.reshape(temp, (l, l, channels, 1)) of a flat array
Reshape4(flat, l, channels) ==
    [i \in (0 .. l - 1) \X (0 .. l - 1) \X (0 .. channels - 1) \X {0} |->
        flat[((i[1] * l + i[2]) * channels + i[3]) * 1 + i[4]]]

\* the filter: an int64 array of shape (l, l, channels, 1) converted to float32
conform_kernel_to_tensor(k, t) ==
    LET l == Len(k)
        channels == t.channels
        temp == Reshape4(NpRepeat(k, channels), l, channels)
    IN  ConvertImageDtype([l |-> l, channels |-> channels, dtype |-> "int64",
                           data |-> temp, kpow |-> 0])

(***************************************************************************)
(* convolve and normalize                                                  *)
(***************************************************************************)
\* a mutant of PadWrap: the wrapped margin taken from the wrong side
PadWrapShifted(t, ph, pw) ==
    Tensor(t.height + 2 * ph, t.width + 2 * pw, t.channels, t.dtype,
           [i \in Idx(t.height + 2 * ph, t.width + 2 * pw, t.channels) |->
               t.data[<<(i[1] + ph) % t.height, (i[2] + pw) % t.width, i[3]>>]],
           t.den, t.kpow)

\* skimage.util.pad(t, ((ph, ph), (pw, pw), (0, 0)), "wrap")
PadWrap(t, ph, pw) ==
    Tensor(t.height + 2 * ph, t.width + 2 * pw, t.channels, t.dtype,
           [i \in Idx(t.height + 2 * ph, t.width + 2 * pw, t.channels) |->
               t.data[<<(i[1] - ph) % t.height, (i[2] - pw) % t.width, i[3]>>]],
           t.den, t.kpow)

\* whether tf.nn.depthwise_conv2d(..., "VALID") accepts the shapes: it
\* rejects a negative output dimension
ConvFits(t, flt) == t.height - flt.l + 1 >= 0 /\ t.width - flt.l + 1 >= 0

\* tf.nn.depthwise_conv2d([t], flt, [1,1,1,1], "VALID")[0]: a correlation of
\* each channel with its own l-by-l slice of the filter
DepthwiseConv2d(t, flt) ==
    LET l == flt.l
        oh == t.height - l + 1
        ow == t.width - l + 1
    IN  Tensor(oh, ow, t.channels * 1, "float32",
               [o \in Idx(oh, ow, t.channels) |->
                   SumTo([m \in 0 .. l * l - 1 |->
                            t.data[<<o[1] + (m \div l), o[2] + (m % l), o[3]>>]
                              * flt.data[<<m \div l, m % l, o[3], 0>>]],
                         l * l)],
               t.den, t.kpow + flt.kpow)

\* skimage.util.crop(t, ((ch, ch), (cw, cw), (0, 0))) for ch, cw >= 0
CropTensor(t, ch, cw) ==
    Tensor(t.height - 2 * ch, t.width - 2 * cw, t.channels, t.dtype,
           [i \in Idx(t.height - 2 * ch, t.width - 2 * cw, t.channels) |->
               t.data[<<i[1] + ch, i[2] + cw, i[3]>>]],
           t.den, t.kpow)

Samples(t) == {t.data[i] : i \in DOMAIN t.data}

\* (t - min) / (max - min): the common factors of numerator and denominator
\* cancel, and a constant tensor gives 0/0 in every sample
normalize(t) ==
    LET mn == SetMin(Samples(t))
        mx == SetMax(Samples(t))
    IN  Tensor(t.height, t.width, t.channels, "float32",
               [i \in DOMAIN t.data |-> t.data[i] - mn], mx - mn, 0)

\* the tensors given to convolve
ConvTensors(h, w, c) ==
    {ConstTensor(h, w, c, HalfSteps), RampTensor(h, w, c, 1),
     ImpulseTensor(h, w, c, c - 1)}

ConvShapes ==
    {s \in (1 .. MaxConvDim) \X (1 .. MaxConvDim) \X (1 .. MaxChannels) :
        Abs(s[1] - s[2]) <= MaxConvSkew}

InitConvolve ==
    /\ pc \in {"convolve", "normalize"}
    /\ kernel \in (IF pc = "convolve" THEN KernelNames ELSE {"none"})
    /\ displacement = 0
    /\ \E s \in ConvShapes :
         /\ pc = "normalize" => s[1] <= MaxDim /\ s[2] <= MaxDim
         /\ tensor \in (IF pc = "normalize" THEN Tensors(s[1], s[2], s[3])
                        ELSE ConvTensors(s[1], s[2], s[3]))
    /\ work = NoTensor
    /\ result = NoTensor
    /\ loc = NoLoc

\* convolve, lines 90-98: the shape, the filter, the wrap padding
ConvolvePad ==
    /\ pc = "convolve"
    /\ LET height == tensor.height
           width == tensor.width
           pad_height == Trunc(height, 4)
           pad_width == Trunc(width, 4)
       IN  /\ loc' = [height |-> height, width |-> width,
                      channels |-> tensor.channels,
                      filter |-> conform_kernel_to_tensor(ConvKernel[kernel], tensor),
                      pad_height |-> pad_height, pad_width |-> pad_width]
           /\ work' = PadWrap(tensor, pad_height, pad_width)
    /\ pc' = "padded"
    /\ UNCHANGED <<kernel, displacement, tensor, result>>

\* convolve, line 100
ConvolveConv ==
    /\ pc = "padded"
    /\ \/ /\ ConvFits(work, loc.filter)
          /\ work' = DepthwiseConv2d(work, loc.filter)
          /\ pc' = "convolved"
       \/ /\ ~ConvFits(work, loc.filter)
          /\ work' = work
          /\ pc' = "error"
    /\ UNCHANGED <<kernel, displacement, tensor, result, loc>>

\* convolve, lines 103-106: skimage's crop rejects a negative crop width
ConvolveCrop ==
    /\ pc = "convolved"
    /\ LET crop_height == Trunc(work.height - loc.height, 2)
           crop_width == Trunc(work.width - loc.width, 2)
       IN  \/ /\ crop_height >= 0 /\ crop_width >= 0
              /\ work' = CropTensor(work, crop_height, crop_width)
              /\ pc' = "cropped"
           \/ /\ crop_height < 0 \/ crop_width < 0
              /\ work' = work
              /\ pc' = "error"
    /\ UNCHANGED <<kernel, displacement, tensor, result, loc>>

\* convolve, lines 108-110
ConvolveNormalize ==
    /\ pc = "cropped"
    /\ result' = normalize(work)
    /\ pc' = "done"
    /\ UNCHANGED <<kernel, displacement, tensor, work, loc>>

\* a call of normalize itself
Normalize ==
    /\ pc = "normalize"
    /\ result' = normalize(tensor)
    /\ pc' = "done"
    /\ UNCHANGED <<kernel, displacement, tensor, work, loc>>

NextConvolve ==
    \/ ConvolvePad
    \/ ConvolveConv
    \/ ConvolveCrop
    \/ ConvolveNormalize
    \/ Normalize

SpecConvolve == InitConvolve /\ [][NextConvolve]_vars

\* C1 (as claimed): for every kernel and every tensor of positive height,
\* width and channel count, convolve completes and returns a tensor of the
\* input's height, width and channel count.
C1_AsClaimed ==
    kernel # "none" =>
      /\ pc # "error"
      /\ (pc = "done" => Shape(result) = Shape(tensor))

\* C2 (as claimed): normalize, called directly or at the end of convolve,
\* never returns a tensor with an undefined (NaN) sample.
C2_AsClaimed ==
    pc = "done" => \A i \in DOMAIN result.data : ~IsNaN(result, i)

\* the positions where t is largest
ArgMax(t) == {i \in DOMAIN t.data : t.data[i] = SetMax(Samples(t))}

SharpenCase == kernel = "sharpen" /\ tensor = ImpulseTensor(4, 4, 1, 0)

\* C7: convolving the 4x4x1 tensor that is 1.0 at (0, 0) and 0.0 elsewhere
\* with sharpen completes with a 4x4x1 tensor whose maximum, 1 after
\* normalization, lies at (0, 0) or next to it.
C7_SharpenImpulse ==
    SharpenCase =>
      /\ pc # "error"
      /\ pc = "done" =>
           /\ Shape(result) = <<4, 4, 1>>
           /\ result.den > 0
           /\ \A i \in ArgMax(result) :
                i[1] <= 1 /\ i[2] <= 1 /\ result.data[i] = result.den

C7_Witness ==
    /\ SharpenCase
    /\ pc = "done"
    /\ ArgMax(result) = {<<0, 0, 0>>}

\* the padding is at least the kernel's half width
PadCoversKernel ==
    /\ kernel # "none"
    /\ Trunc(tensor.height, 4) >= (Len(ConvKernel[kernel]) - 1) \div 2
    /\ Trunc(tensor.width, 4) >= (Len(ConvKernel[kernel]) - 1) \div 2

\* the kernel-centred circular correlation of the input, as a numerator
CircCorr(o) ==
    LET k == ConvKernel[kernel]
        l == Len(k)
        half == (l - 1) \div 2
    IN  SumTo([m \in 0 .. l * l - 1 |->
                 k[(m \div l) + 1][(m % l) + 1]
                   * tensor.data[<<(o[1] + (m \div l) - half) % tensor.height,
                                   (o[2] + (m % l) - half) % tensor.width,
                                   o[3]>>]],
              l * l)

\* the sample of t at i is num / den * (1 / dtype.max) ^ kpow
SampleIs(t, i, num, den, kpow) ==
    \/ t.data[i] = 0 /\ num = 0
    \/ t.kpow = kpow /\ t.data[i] * den = num * t.den

\* C10 (as claimed): when the padding covers the kernel's half width, the
\* value before normalization at (y, x, c) is the circular correlation
\* sum of kernel[i][j] * T[(y+i-half) mod height][(x+j-half) mod width][c].
C10_AsClaimed ==
    PadCoversKernel /\ pc = "cropped" =>
      /\ Shape(work) = Shape(tensor)
      /\ \A o \in DOMAIN work.data : SampleIs(work, o, CircCorr(o), tensor.den, 0)

\* C10 (amended): when the padding covers the kernel's half width, convolve
\* reaches normalization, and the value before it at (y, x, c) is 1/dtype.max
\* (the factor convert_image_dtype gives the integer kernel) times that
\* circular correlation: no spatial shift, the same weights for every
\* channel, no channel mixed into another.
C10_ScaledCircularCorrelation ==
    PadCoversKernel =>
      /\ pc # "error"
      /\ pc = "cropped" =>
           /\ Shape(work) = Shape(tensor)
           /\ work.den = tensor.den
           /\ work.kpow = 1
           /\ \A o \in DOMAIN work.data : work.data[o] = CircCorr(o)

C10_Witness ==
    /\ pc = "cropped"
    /\ PadCoversKernel
    /\ kernel = "emboss"
    /\ Shape(tensor) = <<8, 9, 3>>
    /\ work.data[<<0, 0, 1>>] # 0
    /\ work.data[<<0, 0, 1>>] = CircCorr(<<0, 0, 1>>)

(***************************************************************************)
(* displace                                                                *)
(***************************************************************************)
\* the luma weights of tf.image.rgb_to_grayscale, 0.2989, 0.5870, 0.1140,
\* as numerators over GrayDen
RgbWeights == <<2989, 5870, 1140>>

GrayDen == 10000

\* tf.image.rgb_to_grayscale accepts a last dimension of size 3 only
GrayscaleFits(t) == t.channels = 3

\* tf.image.rgb_to_grayscale(t): one channel, the weighted sum of the three
rgb_to_grayscale(t) ==
    Tensor(t.height, t.width, 1, t.dtype,
           [i \in Idx(t.height, t.width, 1) |->
               SumTo([c \in 0 .. 2 |-> RgbWeights[c + 1] * t.data[<<i[1], i[2], c>>]], 3)],
           GrayDen * t.den, t.kpow)

\* (t - .5) * (2 * d / DispDen), a numerator over t.den * DispDen
ScaleReference(t, d) ==
    Tensor(t.height, t.width, t.channels, t.dtype,
           [i \in DOMAIN t.data |-> (2 * t.data[i] - t.den) * d],
           t.den * DispDen, t.kpow)

\* np.zeros(shape): a float64 array
Zeros(h, w, c) == Tensor(h, w, c, "float64", [i \in Idx(h, w, c) |-> 0], 1, 0)

\* a mutant of PyMod: the remainder with the sign of the dividend
PyModAsRemainder(a, m) == IF a >= 0 THEN a % m ELSE -((-a) % m)

\* Python's a % m for m > 0: never negative
PyMod(a, m) == a % m

\* numpy's a[i] for -n <= i < n: a negative index counts from the end
NpIndex(i, n) == IF i < 0 THEN i + n ELSE i

\* a mutant of XOffset: the base offset added to the source column
XOffsetWithBase(l, x, y) ==
    PyMod(x + l.base_x_offset
            + Trunc(l.reference.data[<<PyMod(y + l.base_y_offset, l.height), x, 0>>]
                      * l.width, l.reference.den),
          l.width)

\* line 204: (x + int(reference[(y + base_y_offset) % height][x] * width)) % width
XOffset(l, x, y) ==
    PyMod(x + Trunc(l.reference.data[<<PyMod(y + l.base_y_offset, l.height), x, 0>>]
                      * l.width, l.reference.den),
          l.width)

\* line 205: (y + int(reference[y][(x + base_x_offset) % width] * height)) % height
YOffset(l, x, y) ==
    PyMod(y + Trunc(l.reference.data[<<y, PyMod(x + l.base_x_offset, l.width), 0>>]
                      * l.height, l.reference.den),
          l.height)

\* the tensors given to displace
DispTensors(h, w, c) ==
    {ConstTensor(h, w, c, 0), ConstTensor(h, w, c, VDen), ImpulseTensor(h, w, c, 0)}
      \cup {RampTensor(h, w, c, s) : s \in 1 .. 2}

InitDisplace ==
    /\ pc = "displace"
    /\ kernel = "none"
    /\ displacement \in -MaxDisplacement .. MaxDisplacement
    /\ \E h \in 1 .. MaxDim, w \in 1 .. MaxDim, c \in 1 .. MaxChannels :
         tensor \in DispTensors(h, w, c)
    /\ work = NoTensor
    /\ result = NoTensor
    /\ loc = NoLoc

\* displace, lines 184-199: the reference field, the empty output and the
\* two random base offsets, int(random.random() * n) in 0 .. n - 1
DisplaceReference ==
    /\ pc = "displace"
    /\ \/ /\ tensor.channels > 2 => GrayscaleFits(tensor)
          /\ \E bx \in 0 .. tensor.width - 1, by \in 0 .. tensor.height - 1 :
               loc' = [height |-> tensor.height, width |-> tensor.width,
                       channels |-> tensor.channels,
                       reference |->
                         ScaleReference(IF tensor.channels > 2
                                        THEN rgb_to_grayscale(tensor)
                                        ELSE tensor,
                                        displacement),
                       temp |-> Zeros(tensor.height, tensor.width, tensor.channels),
                       base_x_offset |-> bx, base_y_offset |-> by,
                       n |-> 0, x |-> 0, y |-> 0, x_offset |-> 0, y_offset |-> 0,
                       written |-> [q \in (0 .. tensor.height - 1)
                                            \X (0 .. tensor.width - 1) |-> 0]]
          /\ pc' = "loop"
       \/ /\ tensor.channels > 2 /\ ~GrayscaleFits(tensor)
          /\ loc' = loc
          /\ pc' = "error"
    /\ UNCHANGED <<kernel, displacement, tensor, work, result>>

\* displace, lines 202-207: one pass of the loop body, x outermost; int() of
\* a reference entry that holds more than one value raises
DisplacePixel ==
    /\ pc = "loop"
    /\ loc.n < loc.width * loc.height
    /\ LET x == loc.n \div loc.height
           y == loc.n % loc.height
       IN  \/ /\ loc.reference.channels = 1
              /\ LET x_offset == XOffset(loc, x, y)
                     y_offset == YOffset(loc, x, y)
                 IN  loc' = [loc EXCEPT
                        !.n = loc.n + 1, !.x = x, !.y = y,
                        !.x_offset = x_offset, !.y_offset = y_offset,
                        !.written[<<y, x>>] = @ + 1,
                        !.temp.data =
                           [i \in DOMAIN loc.temp.data |->
                              IF i[1] = y /\ i[2] = x
                              THEN tensor.data[<<NpIndex(y_offset, loc.height),
                                                 NpIndex(x_offset, loc.width), i[3]>>]
                              ELSE loc.temp.data[i]],
                        !.temp.den = tensor.den]
              /\ pc' = "loop"
           \/ /\ loc.reference.channels # 1
              /\ loc' = [loc EXCEPT !.x = x, !.y = y]
              /\ pc' = "error"
    /\ UNCHANGED <<kernel, displacement, tensor, work, result>>

\* displace, lines 209-211
DisplaceReturn ==
    /\ pc = "loop"
    /\ loc.n = loc.width * loc.height
    /\ result' = ConvertImageDtype(loc.temp)
    /\ pc' = "done"
    /\ UNCHANGED <<kernel, displacement, tensor, work, loc>>

NextDisplace ==
    \/ DisplaceReference
    \/ DisplacePixel
    \/ DisplaceReturn

SpecDisplace == InitDisplace /\ [][NextDisplace]_vars

\* the loop body has run for pixel (loc.x, loc.y)
PixelDone == pc \in {"loop", "done"} /\ loc.n > 0

\* the pixels (y, x) the loop has passed
Passed == {q \in DOMAIN loc.written : q[2] * loc.height + q[1] < loc.n}

\* C4 (as claimed): displace(T, displacement=0.0) returns the cyclic shift of
\* T by the base offsets, output[y][x] = T[(y+base_y) mod height][(x+base_x)
\* mod width].
C4_AsClaimed ==
    pc = "done" /\ displacement = 0 =>
      \A i \in DOMAIN result.data :
        result.data[i] = tensor.data[<<(i[1] + loc.base_y_offset) % loc.height,
                                       (i[2] + loc.base_x_offset) % loc.width,
                                       i[3]>>]

\* C4 (amended): with displacement 0.0 every pixel displace writes is the
\* input's pixel at the same place, whatever the base offsets, and the
\* tensor it returns is the input itself.
C4_ZeroDisplacementIsIdentity ==
    displacement = 0 =>
      /\ PixelDone =>
           /\ loc.x_offset = loc.x /\ loc.y_offset = loc.y
           /\ \A i \in DOMAIN loc.temp.data :
                <<i[1], i[2]>> \in Passed => loc.temp.data[i] = tensor.data[i]
      /\ pc = "done" =>
           /\ Shape(result) = Shape(tensor)
           /\ result.data = tensor.data
           /\ result.den = tensor.den /\ result.kpow = tensor.kpow

C4_Witness ==
    /\ pc = "done"
    /\ displacement = 0
    /\ loc.base_x_offset = 1 /\ loc.base_y_offset = 2
    /\ tensor = RampTensor(3, 3, 1, 1)
    /\ result.data = tensor.data

\* C5: the source indices of every pixel displace computes are inside the
\* tensor, 0 <= x_offset < width and 0 <= y_offset < height, as are the
\* indices that read the reference field; no pixel is written twice, and a
\* call that returns has written every pixel once and returns a tensor of
\* the input's shape.
C5_IndicesInRange ==
    /\ PixelDone =>
         /\ 0 <= loc.x_offset /\ loc.x_offset < loc.width
         /\ 0 <= loc.y_offset /\ loc.y_offset < loc.height
         /\ PyMod(loc.y + loc.base_y_offset, loc.height) \in 0 .. loc.height - 1
         /\ PyMod(loc.x + loc.base_x_offset, loc.width) \in 0 .. loc.width - 1
         /\ loc.x \in 0 .. loc.width - 1 /\ loc.y \in 0 .. loc.height - 1
         /\ \A q \in DOMAIN loc.written :
              loc.written[q] = (IF q \in Passed THEN 1 ELSE 0)
    /\ pc = "done" =>
         /\ \A q \in DOMAIN loc.written : loc.written[q] = 1
         /\ Shape(result) = Shape(tensor)

C5_Witness ==
    /\ pc = "done"
    /\ displacement = -MaxDisplacement
    /\ tensor.height = 3 /\ tensor.width = 2
    /\ loc.base_x_offset = 1 /\ loc.base_y_offset = 1
    /\ \E i \in DOMAIN loc.reference.data :
         loc.reference.data[i] * loc.width < -loc.width * loc.reference.den
    /\ \E i \in DOMAIN loc.reference.data : loc.reference.data[i] > 0

\* num / d rounded to an integer, toward negative infinity or toward zero
Rounded(mode, num, d) ==
    IF mode = "floor" \/ num >= 0 THEN num \div d ELSE -((-num) \div d)

\* the source indices of pixel (loc.x, loc.y) under a rounding mode
RoundedOffsets(mode) ==
    /\ loc.x_offset =
         (loc.x + Rounded(mode,
                          loc.reference.data[<<(loc.y + loc.base_y_offset) % loc.height,
                                               loc.x, 0>>] * loc.width,
                          loc.reference.den)) % loc.width
    /\ loc.y_offset =
         (loc.y + Rounded(mode,
                          loc.reference.data[<<loc.y,
                                               (loc.x + loc.base_x_offset) % loc.width,
                                               0>>] * loc.height,
                          loc.reference.den)) % loc.height

\* output[loc.y][loc.x] is the input's pixel at (y_offset, x_offset)
GatheredPixel ==
    \A c \in 0 .. loc.channels - 1 :
      loc.temp.data[<<loc.y, loc.x, c>>] = tensor.data[<<loc.y_offset, loc.x_offset, c>>]

\* C8 (as claimed): the source of pixel (x, y) is x_offset = (x +
\* floor(reference[(y+base_y) mod height][x] * width)) mod width and y_offset
\* = (y + floor(reference[y][(x+base_x) mod width] * height)) mod height,
\* floor rounding toward negative infinity, and output[y][x] is the input at
\* (y_offset, x_offset).
C8_AsClaimed == PixelDone => RoundedOffsets("floor") /\ GatheredPixel

\* C8 (amended): the same with int() in the place of floor, which rounds
\* toward zero, so a negative product is rounded up.
C8_OffsetsTruncateTowardZero == PixelDone => RoundedOffsets("zero") /\ GatheredPixel

C8_Witness ==
    /\ PixelDone
    /\ RoundedOffsets("zero")
    /\ ~RoundedOffsets("floor")
    /\ loc.reference.data[<<(loc.y + loc.base_y_offset) % loc.height, loc.x, 0>>] < 0
    /\ GatheredPixel

\* C9 (as claimed): for every channel count the reference field displace
\* builds has exactly one channel.
C9_AsClaimed == pc = "loop" => loc.reference.channels = 1

(***************************************************************************)
(* resample and wavelet.  The samples skimage's spline interpolation       *)
(* computes are not modelled: a resampled tensor carries its shape and     *)
(* dtype, and the mark "interpolated" for every sample.                    *)
(***************************************************************************)
\* whether the target size is one resize can produce
ResampleFits(width, height) == width > 0 /\ height > 0

\* resample(tensor, width, height): resize to (height, width, channels), then
\* convert_image_dtype to float32
resample(t, width, height) ==
    ConvertImageDtype(
      [height |-> height, width |-> width, channels |-> t.channels,
       dtype |-> "float64",
       data |-> [i \in Idx(height, width, t.channels) |-> "interpolated"],
       den |-> 1, kpow |-> 0])

\* a - b for two arrays: the shape is the larger size along every axis
Subtract(a, b) ==
    LET h == Max2(a.height, b.height)
        w == Max2(a.width, b.width)
        c == Max2(a.channels, b.channels)
    IN  Tensor(h, w, c, "float32", [i \in Idx(h, w, c) |-> "residual"], 1, 0)

InitWavelet ==
    /\ pc = "wavelet"
    /\ kernel = "none"
    /\ displacement = 0
    /\ \E h \in 1 .. MaxDim, w \in 1 .. MaxDim, c \in 1 .. MaxChannels :
         tensor \in Tensors(h, w, c)
    /\ work = NoTensor
    /\ result = NoTensor
    /\ loc = NoLoc

\* wavelet, lines 224-228: the inner call resample(tensor, int(width * .5),
\* int(height * .5)).  What resize makes of a size of 0 depends on the
\* skimage at hand: it raises, or returns an empty array.
WaveletDown ==
    /\ pc = "wavelet"
    /\ LET width == Trunc(tensor.width, 2)
           height == Trunc(tensor.height, 2)
       IN  /\ loc' = [height |-> tensor.height, width |-> tensor.width,
                      channels |-> tensor.channels,
                      down_width |-> width, down_height |-> height]
           /\ \/ /\ work' = resample(tensor, width, height)
                 /\ pc' = IF ResampleFits(width, height) THEN "down" ELSE "empty"
              \/ /\ ~ResampleFits(width, height)
                 /\ work' = work
                 /\ pc' = "error"
    /\ UNCHANGED <<kernel, displacement, tensor, result>>

\* wavelet, line 228: the outer call resample(..., width, height)
WaveletUp ==
    /\ pc = "down"
    /\ work' = resample(work, loc.width, loc.height)
    /\ pc' = "up"
    /\ UNCHANGED <<kernel, displacement, tensor, result, loc>>

\* the outer call on an empty array: it raises, or returns an array of the
\* shape asked for
WaveletUpEmpty ==
    /\ pc = "empty"
    /\ \/ /\ work' = resample(work, loc.width, loc.height)
          /\ pc' = "up"
       \/ /\ work' = work
          /\ pc' = "error"
    /\ UNCHANGED <<kernel, displacement, tensor, result, loc>>

\* wavelet, line 228: tensor - roundtrip
WaveletSubtract ==
    /\ pc = "up"
    /\ result' = Subtract(tensor, work)
    /\ pc' = "done"
    /\ UNCHANGED <<kernel, displacement, tensor, work, loc>>

NextWavelet ==
    \/ WaveletDown
    \/ WaveletUp
    \/ WaveletUpEmpty
    \/ WaveletSubtract

SpecWavelet == InitWavelet /\ [][NextWavelet]_vars

\* C6 (as claimed): for every tensor of positive height, width and channels
\* wavelet completes with a tensor of the input's shape, and the size it
\* asks the inner resample for, (int(width*.5), int(height*.5)), is a pair
\* of positive integers.
C6_AsClaimed ==
    /\ pc # "error"
    /\ pc \in {"down", "empty", "up", "done"} =>
         loc.down_width > 0 /\ loc.down_height > 0
    /\ pc = "done" => Shape(result) = Shape(tensor)

====
